---- MODULE Spec2Model ----
(***************************************************************************)
(* In-process transport: LocalTransportRegistry (shared/local.ts),         *)
(* LocalServerTransport (server/local.ts) and LocalClientTransport         *)
(* (client/local.ts).  A program builds three endpoints, which share the   *)
(* singleton registry; setTimeout(..., 0) is a FIFO queue of deferred      *)
(* tasks, and the event loop runs one task per turn.                       *)
(***************************************************************************)
EXTENDS Integers, Sequences, FiniteSets, TLC

\* ------------------------------------------------------------------ bounds
\* messages a behaviour hands to the registry (length of the dispatch history)
MaxDispatch == 2
\* close() calls per behaviour that find their endpoint connected
MaxCloses == 1

\* ------------------------------------------------------------- universe
Servers == {"S1", "S2"}
Clients == {"C1", "C2"}
Endpoints == Servers \cup Clients
\* an absent value: undefined _clientId, no Map entry, no server handle
None == "none"
\* identifiers a caller passes to new LocalServerTransport(id)
ServerIds == {"a", "b"}
\* every key a dispatch can name; "z" is never registered
Ids == ServerIds \cup {"c1", "c2", "z"}
\* opaque JSON-RPC payloads; the transport never reads them, so the callers
\* send distinct messages and the k-th one the registry accepts is named k
Messages == 1 .. MaxDispatch + 1

VARIABLES
  sessionId,        \* endpoint -> its sessionId (readonly field)
  serverTransport,  \* client -> _serverTransport handle
  connected,        \* endpoint -> _connected
  clientId,         \* server -> _clientId
  transportMap,     \* registry: id -> endpoint whose callbacks object is stored
  timers,           \* pending setTimeout(..., 0) tasks, oldest first
  closeFired,       \* endpoint -> number of onclose invocations
  dispatchLog,      \* history: every task the registry scheduled, in order
  deliverLog,       \* history: every task run, i.e. every invocation of the
                    \* target's onmessage observer (the owner has attached one)
  result            \* outcome of the call made by the last step

vars == <<sessionId, serverTransport, connected, clientId, transportMap,
          timers, closeFired, dispatchLog, deliverLog, result>>

\* what a call returned or threw, and what it touched
\* op: the method; outcome: "ok" or the error thrown; changed: whether the call
\* took a branch that assigns anything; reentry: what a call made on the same
\* endpoint from inside the onclose observer came to ("none": no such call)
Outcome(op, outcome, changed) ==
  [op |-> op, outcome |-> outcome, changed |-> changed, reentry |-> "none"]

\* a deferred task: the closure captures the callbacks object (an endpoint's
\* forwarder) and the message
Task(ep, m) == [target |-> ep, message |-> m]

\* the last element of a non-empty sequence
Last(q) == q[Len(q)]

\* the sum of f over S, to count the close() calls of a behaviour
RECURSIVE Sum(_, _)
Sum(f, S) == IF S = {} THEN 0
             ELSE LET x == CHOOSE y \in S : TRUE IN f[x] + Sum(f, S \ {x})

\* ------------------------------------------------ LocalTransportRegistry
\* register(id, callbacks): Map.set, the last writer wins
Register(map, id, ep) == [map EXCEPT ![id] = ep]

\* faulty variant: unregister leaves the entry in the Map
UnregisterKeeps(map, id) == map

\* unregister(id): Map.delete, a no-op when the key is absent
Unregister(map, id) == [map EXCEPT ![id] = None]

\* faulty variant: the newest timer runs first
ScheduleNewestFirst(q, task) == <<task>> \o q

\* setTimeout(task, 0): zero-delay timers run in the order they were set
Schedule(q, task) == Append(q, task)

\* the timer the scheduler runs in its next turn
NextTimer(q) == Head(q)

\* transportMap.get(id): undefined for a key the Map does not hold
Lookup(map, id) == IF id \in DOMAIN map THEN map[id] ELSE None

\* faulty variant: send returns quietly when it finds no transport
NotFoundIgnored(op) == Outcome(op, "ok", FALSE)

\* throw new Error(`Transport with ID ${targetId} not found`)
NotFound(op) == Outcome(op, "NotFound", FALSE)

\* faulty variant: send calls target.onmessage before it returns
RegistrySendInline(op, targetId, m) ==
  LET target == Lookup(transportMap, targetId) IN
  IF target = None
    THEN /\ result' = NotFound(op)
         /\ UNCHANGED <<timers, dispatchLog, deliverLog>>
    ELSE /\ Len(dispatchLog) < MaxDispatch
         /\ deliverLog' = Append(deliverLog, Task(target, m))
         /\ dispatchLog' = Append(dispatchLog, Task(target, m))
         /\ result' = Outcome(op, "ok", TRUE)
         /\ UNCHANGED timers

\* registry.send(targetId, message), reached through operation `op`: throws
\* when the Map has no entry, else defers target.onmessage?.(message) to a
\* timer and returns without having called it
RegistrySend(op, targetId, m) ==
  LET target == Lookup(transportMap, targetId) IN
  IF target = None
    THEN /\ result' = NotFound(op)
         /\ UNCHANGED <<timers, dispatchLog, deliverLog>>
    ELSE /\ Len(dispatchLog) < MaxDispatch
         /\ timers' = Schedule(timers, Task(target, m))
         /\ dispatchLog' = Append(dispatchLog, Task(target, m))
         /\ result' = Outcome(op, "ok", TRUE)
         /\ UNCHANGED deliverLog

\* ------------------------------------------------------------ construction
\* new LocalServerTransport(id): registers a forwarder to this endpoint
ServerConstructor(map, s, id) == Register(map, id, s)

\* faulty variant: the client constructor does not register
ClientConstructorUnregistered(map, c, id) == map

\* new LocalClientTransport(server): registers a forwarder to this endpoint
ClientConstructor(map, c, id) == Register(map, id, c)

\* the sets of endpoints a program builds: one server with two clients, or
\* two servers with one client
Programs == {{"S1", "C1", "C2"}, {"S1", "S2", "C1"}}

\* the state after the constructors ran: S2 may be given S1's identifier, the
\* servers are built in either order and the clients after them, C1 connects
\* to S1, C2 to S1 or to no server at all
Init ==
  \E built \in Programs, id2 \in ServerIds, first \in Servers,
     h2 \in {"S1", None} :
    LET second == CHOOSE s \in Servers : s # first
        ids == [e \in Endpoints |->
                  CASE e \notin built -> None
                    [] e = "S1" -> "a" [] e = "S2" -> id2
                    [] e = "C1" -> "c1" [] e = "C2" -> "c2"]
        New(map, e) == IF e \notin built THEN map
                       ELSE IF e \in Servers
                         THEN ServerConstructor(map, e, ids[e])
                         ELSE ClientConstructor(map, e, ids[e])
        m0 == [i \in Ids |-> None]
    IN /\ sessionId = ids
       /\ serverTransport = [c \in Clients |->
            IF c \notin built THEN None ELSE IF c = "C1" THEN "S1" ELSE h2]
       /\ transportMap = New(New(New(New(m0, first), second), "C1"), "C2")
       /\ connected = [e \in Endpoints |-> FALSE]
       /\ clientId = [s \in Servers |-> None]
       /\ timers = <<>>
       /\ closeFired = [e \in Endpoints |-> 0]
       /\ dispatchLog = <<>>
       /\ deliverLog = <<>>
       /\ result = Outcome("new", "ok", TRUE)

\* the endpoints that exist
Built == {e \in Endpoints : sessionId[e] # None}

\* lifecycle of section 4: Created until the first start(), Closed once a
\* close() has found the endpoint connected
Created(e) == ~connected[e] /\ closeFired[e] = 0
Closed(e) == closeFired[e] > 0

\* ---------------------------------------------------- LocalServerTransport
\* start(): if (this._connected) throw
ServerStartGuard(s) == connected[s]

\* send(): if (!this._connected) throw new Error("Not connected")
ServerSendGuard(s) == ~connected[s]

\* faulty variant: send() does not check _clientId
ServerPeerGuardOff(s) == FALSE

\* send(): if (!this._clientId) throw new Error("No client connected")
ServerPeerGuard(s) == clientId[s] = None

\* the calls an onclose observer may make on the endpoint that is closing
Reentries == {"none", "close", "send", "dispatch"}

\* faulty variant: close() invokes onclose before it unregisters and clears
\* _connected
OnCloseViewEarly(e) == [connected |-> connected, transportMap |-> transportMap]

\* this.onclose?.() is the last statement of close(): the observer runs with
\* the entry already unregistered and _connected already false
OnCloseView(e) == [connected |-> connected', transportMap |-> transportMap']

\* what a call made from inside onclose on endpoint e comes to, by the guards
\* of close() and send() and the lookup of registry.send, read in the state
\* the observer runs in
OnClose(e, call, view) ==
  CASE call = "none" -> "none"
    [] call = "close" ->
         IF view.connected[e] THEN "close: closes again" ELSE "close: no-op"
    [] call = "send" ->
         IF ~view.connected[e] THEN "send: NotConnected" ELSE "send: passes"
    [] call = "dispatch" ->
         IF Lookup(view.transportMap, sessionId[e]) = None
           THEN "dispatch: NotFound" ELSE "dispatch: accepted"

\* faulty variant: close() does not check _connected
ServerCloseGuardOff(s) == TRUE

\* close(): if (this._connected) { ... }
ServerCloseGuard(s) == connected[s]

\* faulty variant: the handshake is ignored until the server has started
SetClientIdIfStarted(s, id) ==
  IF connected[s] THEN [clientId EXCEPT ![s] = id] ELSE clientId

\* faulty variant: the first client to announce itself stays the target
SetClientIdFirstWins(s, id) ==
  IF clientId[s] = None THEN [clientId EXCEPT ![s] = id] ELSE clientId

\* _setClientId(clientId)
SetClientId(s, id) == [clientId EXCEPT ![s] = id]

ServerStart(s) ==
  IF ServerStartGuard(s)
    THEN /\ result' = Outcome("start", "AlreadyStarted", FALSE)
         /\ UNCHANGED <<sessionId, serverTransport, connected, clientId,
                        transportMap, timers, closeFired, dispatchLog, deliverLog>>
    ELSE /\ connected' = [connected EXCEPT ![s] = TRUE]
         /\ result' = Outcome("start", "ok", TRUE)
         /\ UNCHANGED <<sessionId, serverTransport, clientId, transportMap,
                        timers, closeFired, dispatchLog, deliverLog>>

ServerSend(s, m) ==
  /\ IF ServerSendGuard(s)
       THEN /\ result' = Outcome("send", "NotConnected", FALSE)
            /\ UNCHANGED <<timers, dispatchLog, deliverLog>>
       ELSE IF ServerPeerGuard(s)
         THEN /\ result' = Outcome("send", "NoClient", FALSE)
              /\ UNCHANGED <<timers, dispatchLog, deliverLog>>
         ELSE RegistrySend("send", clientId[s], m)
  /\ UNCHANGED <<sessionId, serverTransport, connected, clientId,
                 transportMap, closeFired>>

ServerClose(s) ==
  IF ServerCloseGuard(s)
    THEN /\ Sum(closeFired, Endpoints) < MaxCloses
         /\ transportMap' = Unregister(transportMap, sessionId[s])
         /\ connected' = [connected EXCEPT ![s] = FALSE]
         /\ closeFired' = [closeFired EXCEPT ![s] = @ + 1]
         /\ \E call \in Reentries :
              result' = [Outcome("close", "ok", TRUE)
                           EXCEPT !.reentry = OnClose(s, call, OnCloseView(s))]
         /\ UNCHANGED <<sessionId, serverTransport, clientId, timers,
                        dispatchLog, deliverLog>>
    ELSE /\ result' = Outcome("close", "ok", FALSE)
         /\ UNCHANGED <<sessionId, serverTransport, connected, clientId,
                        transportMap, timers, closeFired, dispatchLog, deliverLog>>

\* faulty variant: start() does not check _connected
ClientStartGuardOff(c) == FALSE

\* ---------------------------------------------------- LocalClientTransport
\* start(): if (this._connected) throw
ClientStartGuard(c) == connected[c]

\* faulty variant: send() does not check _connected
ClientSendGuardOff(c) == FALSE

\* send(): if (!this._connected) throw new Error("Not connected")
ClientSendGuard(c) == ~connected[c]

\* close(): if (this._connected) { ... }
ClientCloseGuard(c) == connected[c]

\* faulty variant: start() announces itself to the server before its checks
ClientStartHandshakeFirst(c) ==
  IF serverTransport[c] = None
    THEN /\ result' = Outcome("start", "NoServer", FALSE)
         /\ UNCHANGED <<sessionId, serverTransport, connected, clientId,
                        transportMap, timers, closeFired, dispatchLog, deliverLog>>
    ELSE /\ clientId' = SetClientId(serverTransport[c], sessionId[c])
         /\ connected' = [connected EXCEPT ![c] = TRUE]
         /\ result' = IF ClientStartGuard(c)
                        THEN Outcome("start", "AlreadyStarted", FALSE)
                        ELSE Outcome("start", "ok", TRUE)
         /\ UNCHANGED <<sessionId, serverTransport, transportMap, timers,
                        closeFired, dispatchLog, deliverLog>>

ClientStart(c) ==
  IF ClientStartGuard(c)
    THEN /\ result' = Outcome("start", "AlreadyStarted", FALSE)
         /\ UNCHANGED <<sessionId, serverTransport, connected, clientId,
                        transportMap, timers, closeFired, dispatchLog, deliverLog>>
    ELSE IF serverTransport[c] = None
      THEN /\ result' = Outcome("start", "NoServer", FALSE)
           /\ UNCHANGED <<sessionId, serverTransport, connected, clientId,
                          transportMap, timers, closeFired, dispatchLog, deliverLog>>
      ELSE /\ clientId' = SetClientId(serverTransport[c], sessionId[c])
           /\ connected' = [connected EXCEPT ![c] = TRUE]
           /\ result' = Outcome("start", "ok", TRUE)
           /\ UNCHANGED <<sessionId, serverTransport, transportMap, timers,
                          closeFired, dispatchLog, deliverLog>>

ClientSend(c, m) ==
  /\ IF ClientSendGuard(c)
       THEN /\ result' = Outcome("send", "NotConnected", FALSE)
            /\ UNCHANGED <<timers, dispatchLog, deliverLog>>
       ELSE IF serverTransport[c] = None
         THEN /\ result' = Outcome("send", "NoServer", FALSE)
              /\ UNCHANGED <<timers, dispatchLog, deliverLog>>
         ELSE RegistrySend("send", sessionId[serverTransport[c]], m)
  /\ UNCHANGED <<sessionId, serverTransport, connected, clientId,
                 transportMap, closeFired>>

ClientClose(c) ==
  IF ClientCloseGuard(c)
    THEN /\ Sum(closeFired, Endpoints) < MaxCloses
         /\ transportMap' = Unregister(transportMap, sessionId[c])
         /\ connected' = [connected EXCEPT ![c] = FALSE]
         /\ closeFired' = [closeFired EXCEPT ![c] = @ + 1]
         /\ \E call \in Reentries :
              result' = [Outcome("close", "ok", TRUE)
                           EXCEPT !.reentry = OnClose(c, call, OnCloseView(c))]
         /\ UNCHANGED <<sessionId, serverTransport, clientId, timers,
                        dispatchLog, deliverLog>>
    ELSE /\ result' = Outcome("close", "ok", FALSE)
         /\ UNCHANGED <<sessionId, serverTransport, connected, clientId,
                        transportMap, timers, closeFired, dispatchLog, deliverLog>>

\* ------------------------------------------------------------- scheduler
\* a direct LocalTransportRegistry.getInstance().send(id, message)
Dispatch(id, m) ==
  /\ RegistrySend("dispatch", id, m)
  /\ UNCHANGED <<sessionId, serverTransport, connected, clientId,
                 transportMap, closeFired>>

\* faulty variant: the timer drops a message whose target closed meanwhile
DeliverUnlessClosed ==
  /\ timers # <<>>
  /\ deliverLog' = IF connected[NextTimer(timers).target] \/ Created(NextTimer(timers).target)
                     THEN Append(deliverLog, NextTimer(timers))
                     ELSE deliverLog
  /\ timers' = Tail(timers)
  /\ result' = Outcome("deliver", "ok", TRUE)
  /\ UNCHANGED <<sessionId, serverTransport, connected, clientId,
                 transportMap, closeFired, dispatchLog>>

\* one turn of the timer queue: the oldest task runs target.onmessage?.(message),
\* the forwarder the constructor registered, which calls this.onmessage?.(message)
Deliver ==
  /\ timers # <<>>
  /\ deliverLog' = Append(deliverLog, NextTimer(timers))
  /\ timers' = Tail(timers)
  /\ result' = Outcome("deliver", "ok", TRUE)
  /\ UNCHANGED <<sessionId, serverTransport, connected, clientId,
                 transportMap, closeFired, dispatchLog>>

\* the payload of the next send: one no earlier send was accepted with
Fresh == Len(dispatchLog) + 1

Next ==
  \/ \E s \in Servers \cap Built : ServerStart(s)
  \/ \E s \in Servers \cap Built : ServerSend(s, Fresh)
  \/ \E s \in Servers \cap Built : ServerClose(s)
  \/ \E c \in Clients \cap Built : ClientStart(c)
  \/ \E c \in Clients \cap Built : ClientSend(c, Fresh)
  \/ \E c \in Clients \cap Built : ClientClose(c)
  \/ \E id \in Ids : Dispatch(id, Fresh)
  \/ Deliver

Spec == Init /\ [][Next]_vars

\* timers always fire: the event loop runs every pending zero-delay task
FairSpec == Spec /\ WF_vars(Deliver)

\* ------------------------------------------------- the Transport contract
\* endpoint.start(), endpoint.send(m), endpoint.close() on either role
Start(e) == IF e \in Servers THEN ServerStart(e) ELSE ClientStart(e)
Send(e, m) == IF e \in Servers THEN ServerSend(e, m) ELSE ClientSend(e, m)
Close(e) == IF e \in Servers THEN ServerClose(e) ELSE ClientClose(e)

\* the identifier of e is the identifier of no other endpoint
OwnId(e) == \A o \in Built \ {e} : sessionId[o] # sessionId[e]

\* registry.send(id, m) is reached: directly, or by a send() that passed its
\* own checks and names id as its target
DispatchTo(id, m) ==
  \/ Dispatch(id, m)
  \/ \E c \in Clients \cap Built :
       /\ ClientSend(c, m)
       /\ connected[c] /\ serverTransport[c] # None
       /\ sessionId[serverTransport[c]] = id
  \/ \E s \in Servers \cap Built :
       ServerSend(s, m) /\ connected[s] /\ clientId[s] = id

\* the messages endpoint e's onmessage observer was handed, in order
Received(e) ==
  LET ToE(t) == t.target = e
      log == SelectSeq(deliverLog, ToE)
  IN [i \in 1 .. Len(log) |-> log[i].message]

\* the messages the registry accepted for endpoint e's forwarder, in order
Accepted(e) ==
  LET ToE(t) == t.target = e
      log == SelectSeq(dispatchLog, ToE)
  IN [i \in 1 .. Len(log) |-> log[i].message]

IsPrefix(a, b) == Len(a) <= Len(b) /\ SubSeq(b, 1, Len(a)) = a

\* everything but the outcome of the call
state == <<sessionId, serverTransport, connected, clientId, transportMap,
           timers, closeFired, dispatchLog, deliverLog>>

\* ------------------------------------------------------------------ claims

\* C1: every endpoint's onmessage observer is handed the messages dispatched
\* to it in dispatch order: what it has received is a prefix of what was
\* accepted for it, and all of it once no timer is pending; and a send(m) of
\* a connected client whose server has an identifier of its own and was not
\* closed is accepted as the newest message for that server.
C1_OrderPreserved ==
  /\ [](\A e \in Built :
          /\ IsPrefix(Received(e), Accepted(e))
          /\ timers = <<>> => Received(e) = Accepted(e))
  /\ [][\A c \in Clients \cap Built, m \in Messages :
          (/\ connected[c] /\ serverTransport[c] # None
           /\ OwnId(serverTransport[c]) /\ ~Closed(serverTransport[c])
           /\ result'.op = "send"
           /\ ClientSend(c, m))
          => /\ result' = Outcome("send", "ok", TRUE)
             /\ dispatchLog' = Append(dispatchLog, Task(serverTransport[c], m))]_vars

\* two messages were dispatched to server S1 and both reached its observer
C1_Witness == Received("S1") = <<1, 2>> /\ connected["C1"]

\* C2 as stated: once a client of the server is started, every send() on
\* that server succeeds.
C2_Original ==
  [][\A s \in Servers \cap Built, m \in Messages :
       (/\ \E c \in Clients \cap Built : serverTransport[c] = s /\ connected[c]
        /\ result'.op = "send"
        /\ ServerSend(s, m))
       => result'.outcome = "ok"]_vars

\* C2 amended: when the server is itself started, and the client that started
\* against it has not been closed and is still the recorded peer, send(m) on
\* the server succeeds and schedules exactly one delivery of m to that
\* client's forwarder, added at the tail of the timer queue; each turn of the
\* queue hands the oldest task's message to its target's observer.
C2_HandshakeThenSend ==
  [][/\ \A s \in Servers \cap Built, c \in Clients \cap Built, m \in Messages :
          (/\ connected[s]
           /\ serverTransport[c] = s /\ connected[c] /\ ~Closed(c)
           /\ clientId[s] = sessionId[c]
           /\ result'.op = "send"
           /\ ServerSend(s, m))
          => /\ result' = Outcome("send", "ok", TRUE)
             /\ timers' = Append(timers, Task(c, m))
     /\ Deliver => deliverLog' = Append(deliverLog, Head(timers))]_vars

\* a server send() was accepted and its message is queued for a client
C2_Witness ==
  /\ result = Outcome("send", "ok", TRUE)
  /\ timers # <<>>
  /\ timers[Len(timers)].target \in Clients

\* C3: send() on an endpoint still in Created fails with "Not connected" and
\* changes nothing: no task is scheduled and nothing is delivered.
C3_SendBeforeStartFails ==
  [][\A e \in Built, m \in Messages :
       (Created(e) /\ result'.op = "send" /\ Send(e, m))
       => (result' = Outcome("send", "NotConnected", FALSE) /\ UNCHANGED state)]_vars

\* a send() failed with "Not connected" while no endpoint had been started
C3_Witness ==
  /\ result = Outcome("send", "NotConnected", FALSE)
  /\ \A e \in Built : Created(e)

\* C4: start() on a connected endpoint throws and leaves the endpoint
\* connected, with the registry and every recorded peer as they were.
C4_DoubleStartFails ==
  [][\A e \in Built :
       (connected[e] /\ result'.op = "start" /\ Start(e))
       => (/\ result' = Outcome("start", "AlreadyStarted", FALSE)
           /\ connected'[e]
           /\ UNCHANGED state)]_vars

\* a start() was refused on a client that is the recorded peer of its server
C4_Witness ==
  /\ result = Outcome("start", "AlreadyStarted", FALSE)
  /\ connected["C1"] /\ clientId["S1"] = sessionId["C1"]
  /\ \A e \in Built \ {"C1"} : ~connected[e]

\* C5: close() on a connected endpoint invokes onclose once and leaves the
\* endpoint not connected; close() on an endpoint that is not connected
\* returns normally and changes nothing, so N calls in a row fire onclose once.
C5_CloseIdempotent ==
  [][\A e \in Built :
       (result'.op = "close" /\ Close(e)) =>
         IF connected[e]
           THEN /\ closeFired'[e] = closeFired[e] + 1
                /\ ~connected'[e]
                /\ result'.outcome = "ok" /\ result'.changed
           ELSE /\ result' = Outcome("close", "ok", FALSE)
                /\ UNCHANGED state]_vars

\* the last call was a close() that did nothing, on the one endpoint that is
\* not connected, and that endpoint's onclose has run exactly once
C5_Witness ==
  /\ result = Outcome("close", "ok", FALSE)
  /\ \E e \in Built :
       /\ closeFired[e] = 1 /\ ~connected[e]
       /\ \A o \in Built \ {e} : connected[o]

\* C6: once close() has closed an endpoint, every later start() on it throws
\* and the endpoint is never connected again.
C6_ClosedIsTerminal ==
  [][\A e \in Built :
       (Closed(e) /\ result'.op = "start" /\ Start(e))
       => (result'.outcome = "AlreadyStarted" /\ ~connected'[e])]_vars

\* C7: after close() on a started endpoint, every send() on that endpoint
\* fails with "Not connected" and schedules nothing.
C7_SendAfterCloseFails ==
  [][\A e \in Built, m \in Messages :
       (Closed(e) /\ result'.op = "send" /\ Send(e, m))
       => (result' = Outcome("send", "NotConnected", FALSE)
           /\ UNCHANGED <<timers, dispatchLog>>)]_vars

\* C8 as stated: after any close() call on an endpoint, a registry.send() to
\* that endpoint's identifier throws "not found".  When the last call was a
\* close() and one endpoint alone is not connected, the call was made on it.
C8_Original ==
  [][\A e \in Built :
       (/\ result.op = "close"
        /\ ~connected[e] /\ \A o \in Built \ {e} : connected[o]
        /\ result'.op \in {"send", "dispatch"}
        /\ DispatchTo(sessionId[e], Fresh))
       => result'.outcome = "NotFound"]_vars

\* C8 amended: once close() has closed a started endpoint, every
\* registry.send() to that endpoint's identifier, made directly or by a
\* peer's send(), throws "not found" and schedules nothing.
C8_PostCloseDispatchFails ==
  [][\A e \in Endpoints :
       (Closed(e) /\ result'.op \in {"send", "dispatch"})
       => \A m \in Messages :
            DispatchTo(sessionId[e], m)
            => (/\ result'.outcome = "NotFound" /\ ~result'.changed
                /\ UNCHANGED state)]_vars

\* a client was closed and its server's send(), addressed to it, was refused
\* by the registry
C8_Witness ==
  /\ result = Outcome("send", "NotFound", FALSE)
  /\ \E s \in Servers \cap Built, c \in Clients \cap Built :
       connected[s] /\ clientId[s] = sessionId[c] /\ Closed(c)

\* C9 (I2): an endpoint whose identifier is its own has, while connected, the
\* registry entry under that identifier, forwarding to it, and has no entry
\* once it has been closed.
C9_RegisteredWhileConnected ==
  \A e \in Built :
    OwnId(e) =>
      /\ connected[e] => transportMap[sessionId[e]] = e
      /\ Closed(e) => transportMap[sessionId[e]] = None

\* C10: nothing the registry accepted is dropped or duplicated (what was
\* delivered, followed by what is pending, is what was accepted, in order),
\* and with the timer queue served the queue is empty again and again, so
\* every accepted message is delivered.
C10_ExactlyOnce ==
  /\ [](deliverLog \o timers = dispatchLog)
  /\ []<>(timers = <<>>)

\* every message of the behaviour was accepted and delivered
C10_Witness ==
  /\ Len(deliverLog) = MaxDispatch /\ timers = <<>>
  /\ result = Outcome("deliver", "ok", TRUE)

\* C11 (I3): send() on a connected server whose _clientId no client start()
\* has set throws "No client connected" and changes nothing; _clientId is
\* only ever the identifier of a client that started against that server, and
\* an accepted server send() is queued for the forwarder registered under it.
C11_NoSendWithoutPeer ==
  /\ [](\A s \in Servers \cap Built :
          clientId[s] # None =>
            \E c \in Clients \cap Built :
              /\ serverTransport[c] = s /\ ~Created(c)
              /\ clientId[s] = sessionId[c])
  /\ [][\A s \in Servers \cap Built, m \in Messages :
          (connected[s] /\ result'.op = "send" /\ ServerSend(s, m))
          => IF clientId[s] = None
               THEN /\ result' = Outcome("send", "NoClient", FALSE)
                    /\ UNCHANGED state
               ELSE result'.outcome = "ok"
                    => timers' = Append(timers,
                                        Task(transportMap[clientId[s]], m))]_vars

\* a started server with no recorded peer had its send() refused, while a
\* client that has not started yet is registered and could receive
C11_Witness ==
  /\ result = Outcome("send", "NoClient", FALSE)
  /\ \E s \in Servers \cap Built :
       /\ connected[s] /\ clientId[s] = None
       /\ \A o \in Built \ {s} : Created(o)

C13_DeliveryDeferred ==
  [][/\ result'.op \in {"send", "dispatch"}
        => /\ deliverLog' = deliverLog
           /\ result'.outcome = "ok" => Len(timers') = Len(timers) + 1
     /\ deliverLog' # deliverLog
        => /\ result'.op = "deliver"
           /\ timers # <<>>
           /\ deliverLog' = Append(deliverLog, Head(timers))]_vars

\* two sends were accepted and returned, and no observer has run yet
C13_Witness ==
  /\ result.op \in {"send", "dispatch"} /\ result.outcome = "ok"
  /\ Len(timers) = 2
  /\ deliverLog = <<>>

\* C14: registry.send to an identifier the Map does not hold, whether never
\* registered or already unregistered, throws not-found at once, schedules
\* no timer and leaves the Map as it was; unregister of an identifier the Map
\* does not hold leaves the Map as it was.
C14_AbsentTarget ==
  /\ [](\A id \in Ids :
          transportMap[id] = None => Unregister(transportMap, id) = transportMap)
  /\ [][\A id \in Ids :
          (transportMap[id] = None /\ result'.op = "dispatch"
             /\ \E m \in Messages : Dispatch(id, m))
          => (result' = Outcome("dispatch", "NotFound", FALSE)
                /\ UNCHANGED state)]_vars
  /\ [][\A c \in Clients \cap Built :
          (connected[c] /\ serverTransport[c] # None
             /\ transportMap[sessionId[serverTransport[c]]] = None
             /\ result'.op = "send" /\ \E m \in Messages : ClientSend(c, m))
          => (result' = Outcome("send", "NotFound", FALSE)
                /\ UNCHANGED state)]_vars
  /\ [][\A s \in Servers \cap Built :
          (connected[s] /\ clientId[s] # None
             /\ transportMap[clientId[s]] = None
             /\ result'.op = "send" /\ \E m \in Messages : ServerSend(s, m))
          => (result' = Outcome("send", "NotFound", FALSE)
                /\ UNCHANGED state)]_vars
  /\ [][\A e \in Built :
          (connected[e] /\ transportMap[sessionId[e]] = None
             /\ result'.op = "close" /\ Close(e))
          => transportMap' = transportMap]_vars

\* a direct dispatch to the identifier of an endpoint that closed was refused
C14_Witness ==
  /\ result = Outcome("dispatch", "NotFound", FALSE)
  /\ \E e \in Built : Closed(e) /\ transportMap[sessionId[e]] = None

\* C15 (I4): once close() has closed an endpoint, no timer turn invokes its
\* onmessage observer, not even for a message that was pending at the close.
C15_NoDeliveryAfterClose ==
  [][\A e \in Built :
       (Closed(e) /\ ~connected[e] /\ timers # <<>>
          /\ result'.op = "deliver" /\ Deliver)
       => Head(timers).target # e]_vars

\* C16 (I4): no timer turn invokes the onmessage observer of an endpoint on
\* which start() has never been called.
C16_NoDeliveryBeforeStart ==
  [][\A e \in Built :
       (Created(e) /\ timers # <<>> /\ result'.op = "deliver" /\ Deliver)
       => Head(timers).target # e]_vars

\* C17: client.start() on a not yet connected client succeeds and records the
\* client's id on its server whether or not the server is connected, and
\* leaves the server's _connected alone; server.start() on a not yet
\* connected server succeeds whether or not a client id is recorded, and
\* leaves it alone; once the server is connected and a client that is still
\* open is recorded, in whichever order, the server's send() is accepted.
C17_HandshakeIndependentOfStart ==
  /\ [][\A c \in Clients \cap Built :
          (~connected[c] /\ serverTransport[c] # None
             /\ result'.op = "start" /\ ClientStart(c))
          => /\ result' = Outcome("start", "ok", TRUE)
             /\ connected'[c]
             /\ clientId'[serverTransport[c]] = sessionId[c]
             /\ connected'[serverTransport[c]] = connected[serverTransport[c]]]_vars
  /\ [][\A s \in Servers \cap Built :
          (~connected[s] /\ result'.op = "start" /\ ServerStart(s))
          => /\ result' = Outcome("start", "ok", TRUE)
             /\ connected'[s]
             /\ clientId' = clientId]_vars
  /\ [][\A s \in Servers \cap Built, c \in Clients \cap Built :
          (connected[s] /\ connected[c] /\ ~Closed(c) /\ serverTransport[c] = s
             /\ clientId[s] = sessionId[c]
             /\ result'.op = "send" /\ \E m \in Messages : ServerSend(s, m))
          => /\ result' = Outcome("send", "ok", TRUE)
             /\ Last(dispatchLog').target = c]_vars

\* the handshake has happened on a server that has not been started
C17_Witness ==
  /\ result = Outcome("start", "ok", TRUE)
  /\ Created("S1")
  /\ connected["C1"] /\ clientId["S1"] = sessionId["C1"]

\* C18: a server's send target is the id of the client whose start() against
\* it succeeded last: only a successful client start() changes it, to that
\* client's id; an accepted server send() is queued for that client alone;
\* a close() leaves it as it is, and once its client has closed the server's
\* send() fails with not-found.
C18_LastStartedClientIsTarget ==
  /\ [][clientId' # clientId
          => /\ result' = Outcome("start", "ok", TRUE)
             /\ \E c \in Clients \cap Built :
                  /\ ~connected[c] /\ connected'[c]
                  /\ serverTransport[c] # None
                  /\ clientId' = [clientId EXCEPT ![serverTransport[c]] = sessionId[c]]]_vars
  /\ [][\A c \in Clients \cap Built :
          (~connected[c] /\ serverTransport[c] # None /\ result'.op = "start"
             /\ result'.outcome = "ok" /\ ClientStart(c))
          => clientId'[serverTransport[c]] = sessionId[c]]_vars
  /\ [][\A s \in Servers \cap Built, c \in Clients \cap Built :
          (connected[s] /\ clientId[s] = sessionId[c]
             /\ result'.op = "send" /\ \E m \in Messages : ServerSend(s, m))
          => IF Closed(c)
               THEN result' = Outcome("send", "NotFound", FALSE)
               ELSE /\ result' = Outcome("send", "ok", TRUE)
                    /\ dispatchLog' = Append(dispatchLog, Task(c, Fresh))
                    /\ timers' = Append(timers, Task(c, Fresh))]_vars

\* both clients started against S1, C2 last, and S1's send went to C2
C18_Witness ==
  /\ result = Outcome("send", "ok", TRUE)
  /\ connected["S1"] /\ clientId["S1"] = "c2"
  /\ connected["C1"] /\ ~Closed("C1") /\ serverTransport["C1"] = "S1"
  /\ connected["C2"] /\ ~Closed("C2") /\ serverTransport["C2"] = "S1"
  /\ Last(dispatchLog).target = "C2"

\* C19: close() on an endpoint never removes a registry entry that forwards
\* to a different endpoint, also when two servers were given the same id.
C19_CloseRemovesOnlyOwnEntry ==
  [][\A e \in Built :
       (connected[e] /\ result'.op = "close" /\ Close(e))
       => \A id \in Ids :
            transportMap[id] \notin {None, e} => transportMap'[id] = transportMap[id]]_vars

\* C20: close() on a connected endpoint has unregistered it and set
\* _connected to false by the time it invokes onclose: a close() made on the
\* same endpoint from inside the observer does nothing, a send() made there
\* fails with "Not connected", and a dispatch to the endpoint's id made there
\* fails with not-found; onclose has run once when close() returns.
C20_CloseObserverSeesClosed ==
  [][\A e \in Built :
       (connected[e] /\ result'.op = "close" /\ Close(e))
       => /\ result'.reentry \in {"none", "close: no-op", "send: NotConnected",
                                  "dispatch: NotFound"}
          /\ ~connected'[e]
          /\ transportMap'[sessionId[e]] = None
          /\ closeFired'[e] = closeFired[e] + 1]_vars

\* an onclose observer called send() on its own endpoint, which was still
\* recorded as the server's target, and got "Not connected"
C20_Witness ==
  /\ result.op = "close" /\ result.reentry = "send: NotConnected"
  /\ \E c \in Clients \cap Built :
       /\ Closed(c) /\ ~connected[c]
       /\ serverTransport[c] # None
       /\ connected[serverTransport[c]]
       /\ clientId[serverTransport[c]] = sessionId[c]

====
